---- MODULE Spec2Model ----
(***************************************************************************)
(* State-machine model of the crowdfund campaign contract                  *)
(* (contracts/crowdfund/src/lib.rs).  One action per entry point; every    *)
(* action is the whole invocation, which the host commits entirely or, on  *)
(* a panic or an Err result, not at all.                                   *)
(***************************************************************************)
EXTENDS Integers, Sequences, FiniteSets, TLC

\* ------------------------------------------------------------------ bounds
\* Ledger timestamps range over 0..MaxTime.
MaxTime == 2
\* Tokens every identity of Addr holds before the campaign starts.
InitialBalance == 2
\* Longest roadmap the model builds.
MaxRoadmap == 1
\* Largest value of the signed integer type of amounts (i128 in the code),
\* scaled down so that the checked fee arithmetic has a failing branch.
I128_MAX == 200000
\* Tokens every identity of Addr holds in the runs with large amounts: one
\* such holding times the highest fee rate leaves the (scaled) integer type.
WideBalance == 25
\* Number of values of the unsigned type of progress_bps (u32 in the code),
\* scaled down to a width that holds every capped progress value.
U32_RANGE == 65536

\* --------------------------------------------------------------- constants
BPS_DENOMINATOR == 10000
MAX_FEE_BPS == 10000

\* ---------------------------------------------------------------- universe
None == "None"
\* Identities that call the contract.
Addr == {"creator", "alice"}
\* The fee recipient of a platform configuration.
PlatformAddr == "platform"
\* env.current_contract_address(): the campaign's own custody account.
Contract == "contract"
Holders == Addr \cup {PlatformAddr, Contract}
TokenAddr == "token"
NftAddr == "nft"

\* Arguments the environment passes to initialize.
Goals == {0, 3}
Deadlines == {1}
MinContributions == {0, 1}
FeeRates == {2500, 10000, 10001}
NoPlatformConfig == [some |-> FALSE, address |-> None, fee_bps |-> 0]
PlatformConfigs ==
    {NoPlatformConfig} \cup
    {[some |-> TRUE, address |-> PlatformAddr, fee_bps |-> f] : f \in FeeRates}
InitArgs ==
    [goal : Goals, deadline : Deadlines, min_contribution : MinContributions,
     platform_config : PlatformConfigs]
\* Once the Creator key exists initialize returns before it reads an
\* argument, and the call record keeps none of these four: every element of
\* InitArgs then leads to the same successor state, and two of them, one
\* acceptable and one with an invalid fee rate, stand for all.
ReinitArgs ==
    {a \in InitArgs :
        \/ a.goal = 0 /\ a.min_contribution = 0 /\ ~a.platform_config.some
        \/ a.goal # 0 /\ a.min_contribution # 0
              /\ a.platform_config.fee_bps > MAX_FEE_BPS}
\* Amounts a caller passes to contribute.
Amounts == 0 .. InitialBalance
\* Arguments of the runs with large and with negative amounts: initialize
\* validates none of goal, deadline and min_contribution, and contribute
\* takes any i128.
WideGoals == {0 - 1, WideBalance}
WideMinContributions == {0 - 1, 1}
WideFeeRates == {2500, 10000}
WideInitArgs ==
    [goal : WideGoals, deadline : Deadlines,
     min_contribution : WideMinContributions,
     platform_config :
        {NoPlatformConfig} \cup
        {[some |-> TRUE, address |-> PlatformAddr, fee_bps |-> f] :
            f \in WideFeeRates}]
WideAmounts == {0 - 1, 0, WideBalance}
\* What the reward contract does when withdraw calls its mint: it returns a
\* token id, or it traps.
HookBehaviours == {"mint", "trap"}
\* Arguments of add_roadmap_item.
Dates == {0, MaxTime + 1}
Descriptions == {"", "launch"}

VARIABLES
    creator,            \* DataKey::Creator (None while the key is absent)
    token,              \* DataKey::Token
    goal,               \* DataKey::Goal
    deadline,           \* DataKey::Deadline
    min_contribution,   \* DataKey::MinContribution
    platform_config,    \* DataKey::PlatformConfig (Option)
    total_raised,       \* DataKey::TotalRaised
    status,             \* DataKey::Status
    contribution,       \* DataKey::Contribution(Address), 0 when absent
    contributors,       \* DataKey::Contributors
    roadmap,            \* DataKey::Roadmap
    nft_contract,       \* DataKey::NFTContract (Option)
    now,                \* env.ledger().timestamp()
    balance,            \* balances of the campaign's asset
    deauthorized,       \* the holder the asset's issuer has frozen, if any
    last                \* the most recent invocation and what it committed

config == <<creator, token, goal, deadline, min_contribution, platform_config>>
ledger == <<total_raised, status, contribution, contributors>>
storage == <<config, ledger, roadmap, nft_contract>>
\* What the contract reads from its environment and cannot write.
environment == <<now, deauthorized>>
vars == <<storage, now, balance, deauthorized, last>>

\* ----------------------------------------------------------------- helpers
Contains(s, x) == \E i \in 1..Len(s) : s[i] = x

RECURSIVE SumOver(_, _)
SumOver(f, S) ==
    IF S = {} THEN 0
    ELSE LET x == CHOOSE y \in S : TRUE IN f[x] + SumOver(f, S \ {x})

\* The record of one invocation: who authorized it, its arguments, its
\* result, and the transfers, mints and events it committed.
Call(op, caller, who, amount, hook, result, transfers, mints, events) ==
    [op |-> op, caller |-> caller, who |-> who, amount |-> amount,
     hook |-> hook, result |-> result, transfers |-> transfers,
     mints |-> mints, events |-> events]

\* An invocation that failed: the host rolls back everything it did.
Failed(op, caller, who, amount, hook, result) ==
    Call(op, caller, who, amount, hook, result, <<>>, <<>>, <<>>)

TypedErrors == {"AlreadyInitialized", "CampaignEnded", "CampaignStillActive",
                "GoalNotReached", "GoalReached"}

\* ----------------------------------------------------------- authorization
\* Mutant: require_auth lets every caller through.
RequireAuthAnyone(caller, identity) == TRUE

\* identity.require_auth(): the invocation goes on only when `identity`
\* authorized it; `caller` is the identity that authorized the invocation.
RequireAuth(caller, identity) == caller = identity

\* ------------------------------------------------------------------- token
\* Mutant: the asset contract does not reject negative amounts.
TransferOkSigned(bal, from, to, amount) ==
    bal[from] >= amount /\ deauthorized \notin {from, to}

\* Mutant: the transfer never fails.
TransferOkAlways(bal, from, to, amount) == TRUE

\* token::Client::transfer of the asset contract: fails the invocation on a
\* negative amount, an insufficient balance, or a sender or receiver that
\* the asset's issuer has deauthorized.
TransferOk(bal, from, to, amount) ==
    /\ amount >= 0
    /\ bal[from] >= amount
    /\ deauthorized \notin {from, to}

Transfer(bal, from, to, amount) ==
    IF from = to THEN bal
    ELSE [bal EXCEPT ![from] = @ - amount, ![to] = @ + amount]

Xfer(from, to, amount) == [from |-> from, to |-> to, amount |-> amount]

\* -------------------------------------------------------------------- Init
Init ==
    /\ creator = None
    /\ token = None
    /\ goal = 0
    /\ deadline = 0
    /\ min_contribution = 0
    /\ platform_config = NoPlatformConfig
    /\ total_raised = 0
    /\ status = None
    /\ contribution = [a \in Addr |-> 0]
    /\ contributors = <<>>
    /\ roadmap = <<>>
    /\ nft_contract = None
    /\ now = 0
    /\ deauthorized = None
    /\ balance = [h \in Holders |-> IF h \in Addr THEN InitialBalance ELSE 0]
    /\ last = Failed("deploy", None, None, 0, None, "Ok")

\* -------------------------------------------------------------- initialize
\* Mutant: the guard against a second initialization is missing.
HasCreatorNever == FALSE

\* env.storage().instance().has(&DataKey::Creator)
HasCreator == creator # None

\* Mutant: the fee rate is not checked.
FeeRateValidAlways(fee_bps) == TRUE

FeeRateValid(fee_bps) == ~(fee_bps > MAX_FEE_BPS)

Initialize(caller, c, t, g, d, m, pc) ==
    IF HasCreator THEN
        /\ last' = Failed("initialize", caller, c, 0, None, "AlreadyInitialized")
        /\ UNCHANGED <<storage, environment, balance>>
    ELSE IF ~RequireAuth(caller, c) THEN
        /\ last' = Failed("initialize", caller, c, 0, None, "panic: auth")
        /\ UNCHANGED <<storage, environment, balance>>
    ELSE IF pc.some /\ ~FeeRateValid(pc.fee_bps) THEN
        /\ last' = Failed("initialize", caller, c, 0, None,
                          "panic: platform fee cannot exceed 100%")
        /\ UNCHANGED <<storage, environment, balance>>
    ELSE
        /\ platform_config' = pc
        /\ creator' = c
        /\ token' = t
        /\ goal' = g
        /\ deadline' = d
        /\ min_contribution' = m
        /\ total_raised' = 0
        /\ status' = "Active"
        /\ contributors' = <<>>
        /\ roadmap' = <<>>
        /\ last' = Call("initialize", caller, c, 0, None, "Ok", <<>>, <<>>, <<>>)
        /\ UNCHANGED <<contribution, nft_contract, environment, balance>>

\* ------------------------------------------------------------------- clock
\* The ledger closes and its timestamp advances; no contract code runs.
Tick ==
    /\ now < MaxTime
    /\ now' = now + 1
    /\ last' = Failed("tick", None, None, 0, None, "Ok")
    /\ UNCHANGED <<storage, balance, deauthorized>>

\* ------------------------------------------------------------ asset issuer
\* The issuer of the asset revokes a holder's authorization (h a holder) or
\* restores it (h = None): the asset contract then fails every transfer
\* from or to that holder.  No code of the campaign runs.
SetAuthorized(h) ==
    /\ h # deauthorized
    /\ deauthorized' = h
    /\ last' = Failed("set_authorized", None, h, 0, None, "Ok")
    /\ UNCHANGED <<storage, now, balance>>

\* -------------------------------------------------------- set_nft_contract
SetNftContract(caller, c, n) ==
    IF creator = None THEN
        /\ last' = Failed("set_nft_contract", caller, c, 0, None, "panic: unwrap")
        /\ UNCHANGED <<storage, environment, balance>>
    ELSE IF c # creator THEN
        /\ last' = Failed("set_nft_contract", caller, c, 0, None,
                          "panic: not authorized")
        /\ UNCHANGED <<storage, environment, balance>>
    ELSE IF ~RequireAuth(caller, c) THEN
        /\ last' = Failed("set_nft_contract", caller, c, 0, None, "panic: auth")
        /\ UNCHANGED <<storage, environment, balance>>
    ELSE
        /\ nft_contract' = n
        /\ last' = Call("set_nft_contract", caller, c, 0, None, "Ok",
                        <<>>, <<>>, <<>>)
        /\ UNCHANGED <<config, ledger, roadmap, environment, balance>>

\* ------------------------------------------------------------ status guard
\* Mutant: the status is read but never compared.
IsActiveUnchecked(st) == TRUE

\* Mutant: only a paid-out campaign is closed.
IsActiveOrRefunded(st) == st \in {"Active", "Refunded"}

\* status == Status::Active, the guard that opens contribute, withdraw and
\* refund_single
IsActive(st) == st = "Active"

\* -------------------------------------------------------------- contribute
\* Mutant: after the deadline the minimum is no longer checked, as if the
\* deadline check came first.
AmountAcceptedWhenLate(amount, min) == ~(amount < min) \/ now > deadline

\* Mutant: an amount equal to the minimum is rejected as well.
AmountAcceptedAbove(amount, min) == ~(amount <= min)

AmountAccepted(amount, min) == ~(amount < min)

\* Mutant: the deadline check is missing.
ContributeOpenAlways(t, d) == TRUE

ContributeOpen(t, d) == ~(t > d)

\* Mutant: the new amount replaces the entry instead of adding to it.
EntryAfterContributeOverwrite(previous_amount, amount) == amount

\* previous_amount + amount, stored under the contributor's key
EntryAfterContribute(previous_amount, amount) == previous_amount + amount

\* total + amount, stored as TotalRaised
TotalAfterContribute(total, amount) == total + amount

\* Mutant: a new contributor is put at the front of the list.
PushContributorFront(list, c) ==
    IF ~Contains(list, c) THEN <<c>> \o list ELSE list

\* Mutant: the membership test before push_back is missing.
PushContributorAlways(list, c) == Append(list, c)

PushContributor(list, c) ==
    IF ~Contains(list, c) THEN Append(list, c) ELSE list

Contribute(caller, contributor, amount) ==
    IF ~RequireAuth(caller, contributor) THEN
        /\ last' = Failed("contribute", caller, contributor, amount, None,
                          "panic: auth")
        /\ UNCHANGED <<storage, environment, balance>>
    ELSE IF creator = None THEN
        /\ last' = Failed("contribute", caller, contributor, amount, None,
                          "panic: unwrap")
        /\ UNCHANGED <<storage, environment, balance>>
    ELSE IF ~IsActive(status) THEN
        /\ last' = Failed("contribute", caller, contributor, amount, None,
                          "panic: campaign is not active")
        /\ UNCHANGED <<storage, environment, balance>>
    ELSE IF ~AmountAccepted(amount, min_contribution) THEN
        /\ last' = Failed("contribute", caller, contributor, amount, None,
                          "panic: amount below minimum")
        /\ UNCHANGED <<storage, environment, balance>>
    ELSE IF ~ContributeOpen(now, deadline) THEN
        /\ last' = Failed("contribute", caller, contributor, amount, None,
                          "CampaignEnded")
        /\ UNCHANGED <<storage, environment, balance>>
    ELSE IF ~TransferOk(balance, contributor, Contract, amount) THEN
        /\ last' = Failed("contribute", caller, contributor, amount, None,
                          "panic: transfer")
        /\ UNCHANGED <<storage, environment, balance>>
    ELSE
        /\ balance' = Transfer(balance, contributor, Contract, amount)
        /\ contribution' = [contribution EXCEPT
                              ![contributor] = EntryAfterContribute(@, amount)]
        /\ total_raised' = TotalAfterContribute(total_raised, amount)
        /\ contributors' = PushContributor(contributors, contributor)
        /\ last' = Call("contribute", caller, contributor, amount, None, "Ok",
                        <<Xfer(contributor, Contract, amount)>>, <<>>, <<>>)
        /\ UNCHANGED <<config, status, roadmap, nft_contract, environment>>

\* ---------------------------------------------------------------- withdraw
\* i128::checked_mul: the product, or no value when it leaves the type.
InRange(x) == (0 - I128_MAX) - 1 <= x /\ x <= I128_MAX

CheckedMul(a, b) ==
    IF InRange(a * b) THEN [some |-> TRUE, value |-> a * b]
    ELSE [some |-> FALSE, value |-> 0]

\* Integer division of the code: it truncates toward zero.
TruncDiv(a, b) == IF a >= 0 THEN a \div b ELSE 0 - ((0 - a) \div b)

\* Mutant: the fee is rounded up.
FeeOfRoundedUp(total, fee_bps) ==
    (total * fee_bps + BPS_DENOMINATOR - 1) \div BPS_DENOMINATOR

\* fee = total * fee_bps / 10_000
FeeOf(total, fee_bps) == TruncDiv(total * fee_bps, BPS_DENOMINATOR)

\* Mutant: the creator is paid the whole amount on top of the fee.
CreatorPayoutWhole(total, fee) == total

\* creator_payout = total - fee
CreatorPayout(total, fee) == total - fee

\* Mutant: the payout already opens at the deadline itself.
WithdrawOpenAtDeadline(t, d) == ~(t < d)

\* Mutant: the deadline check is missing.
WithdrawOpenAlways(t, d) == TRUE

WithdrawOpen(t, d) == ~(t <= d)

GoalMet(total, g) == ~(total < g)

\* Mutant: the payout leaves the campaign Active.
StatusAfterWithdrawActive == "Active"

\* The status withdraw stores after the payout.
StatusAfterWithdraw == "Successful"

\* Mutant: the test for a positive amount is missing.
EligibleAll(list, amounts) == list

\* The contributors the reward contract mints for, in list order.
RECURSIVE Eligible(_, _)
Eligible(list, amounts) ==
    IF list = <<>> THEN <<>>
    ELSE IF amounts[Head(list)] > 0
         THEN <<Head(list)>> \o Eligible(Tail(list), amounts)
         ELSE Eligible(Tail(list), amounts)

Event(name, subject, value) ==
    [name |-> name, subject |-> subject, value |-> value]

MintEvents(minted) ==
    [i \in 1..Len(minted) |-> Event("nft_minted", minted[i], i)]

\* Mutant: a failing mint is skipped and the payout goes on.
MintPanicsNever(minted, hook) == FALSE

\* nft_client.mint(&contributor) panics when the reward contract fails; it
\* is called only when there is somebody to mint for.
MintPanics(minted, hook) == minted # <<>> /\ hook = "trap"

Withdraw(caller, hook) ==
    IF creator = None THEN
        /\ last' = Failed("withdraw", caller, None, 0, hook, "panic: unwrap")
        /\ UNCHANGED <<storage, environment, balance>>
    ELSE IF ~IsActive(status) THEN
        /\ last' = Failed("withdraw", caller, None, 0, hook,
                          "panic: campaign is not active")
        /\ UNCHANGED <<storage, environment, balance>>
    ELSE IF ~RequireAuth(caller, creator) THEN
        /\ last' = Failed("withdraw", caller, None, 0, hook, "panic: auth")
        /\ UNCHANGED <<storage, environment, balance>>
    ELSE IF ~WithdrawOpen(now, deadline) THEN
        /\ last' = Failed("withdraw", caller, None, 0, hook, "CampaignStillActive")
        /\ UNCHANGED <<storage, environment, balance>>
    ELSE IF ~GoalMet(total_raised, goal) THEN
        /\ last' = Failed("withdraw", caller, None, 0, hook, "GoalNotReached")
        /\ UNCHANGED <<storage, environment, balance>>
    ELSE
        LET total == total_raised
            pc == platform_config
            fee == IF pc.some THEN FeeOf(total, pc.fee_bps) ELSE 0
            creator_payout == IF pc.some THEN CreatorPayout(total, fee) ELSE total
            bal1 == IF pc.some THEN Transfer(balance, Contract, pc.address, fee)
                    ELSE balance
            bal2 == Transfer(bal1, Contract, creator, creator_payout)
            minted == IF nft_contract # None
                      THEN Eligible(contributors, contribution) ELSE <<>>
            paid == (IF pc.some THEN <<Xfer(Contract, pc.address, fee)>> ELSE <<>>)
                    \o <<Xfer(Contract, creator, creator_payout)>>
            events == (IF pc.some
                       THEN <<Event("fee_transferred", pc.address, fee)>>
                       ELSE <<>>)
                      \o MintEvents(minted)
                      \o <<Event("withdrawn", creator, total)>>
        IN  IF pc.some /\ ~CheckedMul(total, pc.fee_bps).some THEN
                /\ last' = Failed("withdraw", caller, None, 0, hook,
                                  "panic: fee calculation overflow")
                /\ UNCHANGED <<storage, environment, balance>>
            ELSE IF pc.some /\ ~InRange(creator_payout) THEN
                /\ last' = Failed("withdraw", caller, None, 0, hook,
                                  "panic: creator payout underflow")
                /\ UNCHANGED <<storage, environment, balance>>
            ELSE IF \/ pc.some /\ ~TransferOk(balance, Contract, pc.address, fee)
                    \/ ~TransferOk(bal1, Contract, creator, creator_payout) THEN
                /\ last' = Failed("withdraw", caller, None, 0, hook,
                                  "panic: transfer")
                /\ UNCHANGED <<storage, environment, balance>>
            ELSE IF MintPanics(minted, hook) THEN
                /\ last' = Failed("withdraw", caller, None, 0, hook, "panic: mint")
                /\ UNCHANGED <<storage, environment, balance>>
            ELSE
                /\ balance' = bal2
                /\ total_raised' = 0
                /\ status' = StatusAfterWithdraw
                /\ last' = Call("withdraw", caller, None, 0, hook, "Ok",
                                paid, minted, events)
                /\ UNCHANGED <<config, contribution, contributors, roadmap,
                               nft_contract, environment>>

\* ----------------------------------------------------------- refund_single
\* Mutant: refunds already open at the deadline itself.
RefundOpenAtDeadline(t, d) == ~(t < d)

\* Mutant: refunds are open at any time.
RefundOpenAlways(t, d) == TRUE

RefundOpen(t, d) == ~(t <= d)

\* Mutant: a campaign that raised exactly its goal still refunds.
GoalMissedOrEqual(total, g) == ~(total > g)

GoalMissed(total, g) == ~(total >= g)

\* Mutant: the early return on an empty entry is missing.
NothingToRefundNever(amount) == FALSE

\* amount == 0: nothing to reclaim, the call returns Ok at once.
NothingToRefund(amount) == amount = 0

\* Mutant: the refunded entry keeps its amount.
EntryAfterRefundKept(amount) == amount

\* The value refund_single stores under the contributor's key.
EntryAfterRefund(amount) == 0

\* Mutant: the refund leaves the counter as it was.
TotalAfterRefundKept(total, amount) == total

\* total - amount, stored as TotalRaised
TotalAfterRefund(total, amount) == total - amount

\* Mutant: the first refund already closes the campaign.
StatusAfterRefundAlways(st, total, amount) == "Refunded"

\* Mutant: no refund closes the campaign.
StatusAfterRefundNever(st, total, amount) == st

\* The status refund_single stores after returning `amount` out of `total`.
StatusAfterRefund(st, total, amount) ==
    IF total - amount = 0 THEN "Refunded" ELSE st

RefundSingle(caller, contributor) ==
    IF ~RequireAuth(caller, contributor) THEN
        /\ last' = Failed("refund_single", caller, contributor, 0, None,
                          "panic: auth")
        /\ UNCHANGED <<storage, environment, balance>>
    ELSE IF creator = None THEN
        /\ last' = Failed("refund_single", caller, contributor, 0, None,
                          "panic: unwrap")
        /\ UNCHANGED <<storage, environment, balance>>
    ELSE IF ~IsActive(status) THEN
        /\ last' = Failed("refund_single", caller, contributor, 0, None,
                          "panic: campaign is not active")
        /\ UNCHANGED <<storage, environment, balance>>
    ELSE IF ~RefundOpen(now, deadline) THEN
        /\ last' = Failed("refund_single", caller, contributor, 0, None,
                          "CampaignStillActive")
        /\ UNCHANGED <<storage, environment, balance>>
    ELSE IF ~GoalMissed(total_raised, goal) THEN
        /\ last' = Failed("refund_single", caller, contributor, 0, None,
                          "GoalReached")
        /\ UNCHANGED <<storage, environment, balance>>
    ELSE
        LET total == total_raised
            amount == contribution[contributor]
        IN  IF NothingToRefund(amount) THEN
                /\ last' = Call("refund_single", caller, contributor, 0, None,
                                "Ok", <<>>, <<>>, <<>>)
                /\ UNCHANGED <<storage, environment, balance>>
            ELSE IF ~TransferOk(balance, Contract, contributor, amount) THEN
                /\ last' = Failed("refund_single", caller, contributor, 0, None,
                                  "panic: transfer")
                /\ UNCHANGED <<storage, environment, balance>>
            ELSE
                /\ balance' = Transfer(balance, Contract, contributor, amount)
                /\ contribution' = [contribution EXCEPT
                                  ![contributor] = EntryAfterRefund(amount)]
                /\ total_raised' = TotalAfterRefund(total, amount)
                /\ status' = StatusAfterRefund(status, total, amount)
                /\ last' = Call("refund_single", caller, contributor, amount,
                                None, "Ok",
                                <<Xfer(Contract, contributor, amount)>>,
                                <<>>, <<>>)
                /\ UNCHANGED <<config, contributors, roadmap, nft_contract,
                               environment>>

\* What a call of refund_single authorized by `contributor` commits, as a
\* function of the ledger and the balances `l` it is run on: `l` itself when
\* the call fails or has nothing to return.
AfterRefund(l, contributor) ==
    LET total == l.total_raised
        amount == l.contribution[contributor]
    IN  IF \/ creator = None
           \/ ~IsActive(l.status)
           \/ ~RefundOpen(now, deadline)
           \/ ~GoalMissed(total, goal)
           \/ NothingToRefund(amount)
           \/ ~TransferOk(l.balance, Contract, contributor, amount)
        THEN l
        ELSE [contribution |->
                  [l.contribution EXCEPT ![contributor] = EntryAfterRefund(amount)],
              total_raised |-> TotalAfterRefund(total, amount),
              status |-> StatusAfterRefund(l.status, total, amount),
              balance |-> Transfer(l.balance, Contract, contributor, amount)]

\* -------------------------------------------------------- add_roadmap_item
RoadmapItem(date, description) == [date |-> date, description |-> description]

AddRoadmapItem(caller, date, description) ==
    /\ Len(roadmap) < MaxRoadmap
    /\ IF creator = None THEN
           /\ last' = Failed("add_roadmap_item", caller, None, date, None,
                             "panic: unwrap")
           /\ UNCHANGED <<storage, environment, balance>>
       ELSE IF ~RequireAuth(caller, creator) THEN
           /\ last' = Failed("add_roadmap_item", caller, None, date, None,
                             "panic: auth")
           /\ UNCHANGED <<storage, environment, balance>>
       ELSE IF date <= now THEN
           /\ last' = Failed("add_roadmap_item", caller, None, date, None,
                             "panic: date must be in the future")
           /\ UNCHANGED <<storage, environment, balance>>
       ELSE IF description = "" THEN
           /\ last' = Failed("add_roadmap_item", caller, None, date, None,
                             "panic: description cannot be empty")
           /\ UNCHANGED <<storage, environment, balance>>
       ELSE
           /\ roadmap' = Append(roadmap, RoadmapItem(date, description))
           /\ last' = Call("add_roadmap_item", caller, None, date, None, "Ok",
                           <<>>, <<>>,
                           <<Event("roadmap_item_added", description, date)>>)
           /\ UNCHANGED <<config, ledger, nft_contract, environment, balance>>

\* --------------------------------------------------------------- get_stats
\* Mutant: the progress is not capped.
ProgressBpsUncapped(total, g) ==
    IF g > 0 THEN TruncDiv(total * 10000, g) % U32_RANGE ELSE 0

\* `raw as u32`: the low 32 bits of raw
AsU32(raw) == raw % U32_RANGE

\* progress_bps of get_stats, from the stored TotalRaised and Goal
ProgressBps(total, g) ==
    IF g > 0 THEN
        LET raw == TruncDiv(total * 10000, g)
        IN  IF raw > 10000 THEN 10000 ELSE AsU32(raw)
    ELSE 0

\* The largest stored amount among the listed contributors, starting at 0.
Largest(list, amounts) ==
    LET seen == {amounts[list[i]] : i \in 1..Len(list)} \cup {0}
    IN  CHOOSE x \in seen : \A y \in seen : y <= x

\* The view get_stats: it reads the storage and writes nothing.
GetStats ==
    LET contributor_count == Len(contributors)
    IN  [total_raised |-> total_raised,
         goal |-> goal,
         progress_bps |-> ProgressBps(total_raised, goal),
         contributor_count |-> contributor_count,
         average_contribution |->
             IF contributor_count = 0 THEN 0
             ELSE TruncDiv(total_raised, contributor_count),
         largest_contribution |->
             IF contributor_count = 0 THEN 0
             ELSE Largest(contributors, contribution)]

\* ------------------------------------------------------------------- views
\* Mutant: the view reports nothing once the campaign is paid out.
ContributionOfUnpaid(contributor) ==
    IF status = "Successful" THEN 0 ELSE contribution[contributor]

\* The view contribution(contributor): the stored entry, 0 when absent.
ContributionOf(contributor) == contribution[contributor]

\* The view total_raised(): the stored TotalRaised.
TotalRaisedOf == total_raised

\* ----------------------------------------------------------- specification
Next ==
    \/ \E caller \in Addr, c \in {"creator"}, t \in {TokenAddr},
          a \in (IF creator = None THEN InitArgs ELSE ReinitArgs) :
          Initialize(caller, c, t, a.goal, a.deadline, a.min_contribution,
                     a.platform_config)
    \/ \E caller \in Addr, c \in Addr, n \in {NftAddr} :
          SetNftContract(caller, c, n)
    \/ \E caller \in Addr, contributor \in Addr, amount \in Amounts :
          Contribute(caller, contributor, amount)
    \/ \E caller \in Addr, hook \in HookBehaviours : Withdraw(caller, hook)
    \/ \E caller \in Addr, contributor \in Addr :
          RefundSingle(caller, contributor)
    \/ \E caller \in Addr, date \in Dates, description \in Descriptions :
          AddRoadmapItem(caller, date, description)
    \/ Tick

Spec == Init /\ [][Next]_vars

\* The entry points that move the asset, run against an asset whose issuer
\* deauthorizes and reauthorizes holders.
NextDeauthorized ==
    \/ \E caller \in Addr, c \in {"creator"}, t \in {TokenAddr},
          a \in (IF creator = None THEN InitArgs ELSE ReinitArgs) :
          Initialize(caller, c, t, a.goal, a.deadline, a.min_contribution,
                     a.platform_config)
    \/ \E caller \in Addr, contributor \in Addr, amount \in Amounts :
          Contribute(caller, contributor, amount)
    \/ \E caller \in Addr, hook \in HookBehaviours : Withdraw(caller, hook)
    \/ \E caller \in Addr, contributor \in Addr :
          RefundSingle(caller, contributor)
    \/ \E h \in Holders \cup {None} : SetAuthorized(h)
    \/ Tick

SpecDeauthorized == Init /\ [][NextDeauthorized]_vars

\* The same contract before its initialization, the identities holding
\* large amounts of the asset.
InitWide ==
    /\ creator = None
    /\ token = None
    /\ goal = 0
    /\ deadline = 0
    /\ min_contribution = 0
    /\ platform_config = NoPlatformConfig
    /\ total_raised = 0
    /\ status = None
    /\ contribution = [a \in Addr |-> 0]
    /\ contributors = <<>>
    /\ roadmap = <<>>
    /\ nft_contract = None
    /\ now = 0
    /\ deauthorized = None
    /\ balance = [h \in Holders |-> IF h \in Addr THEN WideBalance ELSE 0]
    /\ last = Failed("deploy", None, None, 0, None, "Ok")

\* The entry points that move the asset, called with large and with
\* negative arguments.
NextWide ==
    \/ \E caller \in Addr, c \in {"creator"}, t \in {TokenAddr},
          a \in (IF creator = None THEN WideInitArgs ELSE ReinitArgs) :
          Initialize(caller, c, t, a.goal, a.deadline, a.min_contribution,
                     a.platform_config)
    \/ \E caller \in Addr, contributor \in Addr, amount \in WideAmounts :
          Contribute(caller, contributor, amount)
    \/ \E caller \in Addr : Withdraw(caller, "mint")
    \/ \E caller \in Addr, contributor \in Addr :
          RefundSingle(caller, contributor)
    \/ Tick

SpecWide == InitWide /\ [][NextWide]_vars

\* A contributor that holds a positive ledger amount calls refund_single
\* for itself.
RefundCall(a) == contribution[a] > 0 /\ RefundSingle(a, a)

\* The entry points that move the asset or decide whether it may move.
NextFunds ==
    \/ \E caller \in Addr, c \in {"creator"}, t \in {TokenAddr},
          a \in (IF creator = None THEN InitArgs ELSE ReinitArgs) :
          Initialize(caller, c, t, a.goal, a.deadline, a.min_contribution,
                     a.platform_config)
    \/ \E caller \in Addr, contributor \in Addr, amount \in Amounts :
          Contribute(caller, contributor, amount)
    \/ \E caller \in Addr, hook \in HookBehaviours : Withdraw(caller, hook)
    \/ \E caller \in Addr, contributor \in Addr :
          RefundSingle(caller, contributor)
    \/ Tick

SpecFunds == Init /\ [][NextFunds]_vars

\* These entry points driven by callers of which every contributor that
\* holds a positive ledger amount keeps asking for its refund until it is
\* served.
SpecFair ==
    Init /\ [][NextFunds]_vars /\ \A a \in Addr : WF_vars(RefundCall(a))

\* ================================================================== claims
LedgerSum == SumOver(contribution, Addr)

\* Call `call` committed a transfer out of the campaign's custody to `a`.
PaidTo(call, a) ==
    \E i \in 1..Len(call.transfers) :
        call.transfers[i].from = Contract /\ call.transfers[i].to = a

\* The creator and, when a platform configuration is stored, its recipient.
Payees ==
    {creator} \cup (IF platform_config.some THEN {platform_config.address} ELSE {})

\* ---------------------------------------------------------------------- C1
\* C1 (as stated): in every reachable state between calls total_raised
\* equals the sum of all per-contributor ledger amounts.
C1_TotalEqualsLedgerSum == total_raised = LedgerSum

\* C1 (amended): total_raised equals the sum of the ledger amounts in every
\* reachable state whose status is not Successful; a successful withdraw
\* resets total_raised to 0 and leaves the ledger amounts in place.
C1_TotalEqualsLedgerSumUntilPayout ==
    /\ status # "Successful" => total_raised = LedgerSum
    /\ status = "Successful" => total_raised = 0

C1_Witness ==
    /\ status = "Active"
    /\ last.op = "refund_single" /\ last.transfers # <<>>
    /\ total_raised > 0

\* ---------------------------------------------------------------------- C2
\* C2 (as stated): an amount is transferred to the creator or to the fee
\* recipient only inside a withdraw call made while status is Active, the
\* time is strictly after the deadline and total_raised >= goal.
C2_PayoutOnlyInWithdraw ==
    [][\A a \in Payees :
         PaidTo(last', a) =>
             /\ last'.op = "withdraw"
             /\ status = "Active" /\ now > deadline /\ total_raised >= goal]_vars

\* C2 (amended): an amount is transferred to the creator or to the fee
\* recipient only inside such a withdraw call, or inside a refund_single
\* call of a failed campaign (Active, time > deadline, total_raised < goal)
\* that this identity authorized for itself and that returns exactly its
\* own ledger amount.
C2_PayoutOnlyInWithdrawOrOwnRefund ==
    [][\A a \in Payees :
         PaidTo(last', a) =>
             \/ /\ last'.op = "withdraw"
                /\ status = "Active" /\ now > deadline /\ total_raised >= goal
             \/ /\ last'.op = "refund_single"
                /\ last'.who = a /\ last'.caller = a
                /\ last'.transfers = <<Xfer(Contract, a, contribution[a])>>
                /\ status = "Active" /\ now > deadline /\ total_raised < goal]_vars

C2_Witness ==
    /\ last.op = "withdraw" /\ last.result = "Ok"
    /\ Len(last.transfers) = 2
    /\ last.transfers[1].to = PlatformAddr /\ last.transfers[1].amount > 0
    /\ last.transfers[2].to = creator /\ last.transfers[2].amount > 0

\* ---------------------------------------------------------------------- C3
\* C3: a successful withdraw of the raised amount T pays the fee recipient
\* exactly floor(T * f / 10000) and the creator exactly T minus that when a
\* platform configuration with rate f is stored, the two summing to T, and
\* pays the creator exactly T when none is stored.
C3_FeeSplitExact ==
    [][last'.op = "withdraw" /\ last'.result = "Ok" =>
         LET T == total_raised
             fee == (T * platform_config.fee_bps) \div 10000
         IN  IF platform_config.some
             THEN /\ last'.transfers =
                        <<Xfer(Contract, platform_config.address, fee),
                          Xfer(Contract, creator, T - fee)>>
                  /\ balance'[platform_config.address] =
                        balance[platform_config.address] + fee
                  /\ balance'[creator] = balance[creator] + (T - fee)
                  /\ balance'[Contract] = balance[Contract] - T
             ELSE /\ last'.transfers = <<Xfer(Contract, creator, T)>>
                  /\ balance'[creator] = balance[creator] + T
                  /\ balance'[Contract] = balance[Contract] - T
                  /\ balance'[PlatformAddr] = balance[PlatformAddr]]_vars

\* A payout of 3 at 2500 basis points: the fee 0.75 is floored to 0.
C3_Witness ==
    /\ last.op = "withdraw" /\ last.result = "Ok"
    /\ platform_config.some /\ platform_config.fee_bps = 2500
    /\ last.transfers = <<Xfer(Contract, PlatformAddr, 0),
                          Xfer(Contract, creator, 3)>>

\* ---------------------------------------------------------------------- C4
\* The reward contract traps in this withdraw call: one is stored, some
\* listed contributor holds a positive amount, and its mint fails.
MintTraps(call) ==
    /\ nft_contract # None
    /\ \E i \in 1..Len(contributors) : contribution[contributors[i]] > 0
    /\ call.hook = "trap"

\* C4: a withdraw call on an Active campaign, authorized by the stored
\* creator, at a time strictly after the deadline and with
\* total_raised >= goal succeeds (the reward contract not trapping), sets
\* total_raised to 0 and status to Successful; a payout is made only from
\* status Active, Successful is never left, and every withdraw call on a
\* Successful campaign aborts with "campaign is not active" and transfers
\* nothing: the creator is paid at most once.
C4_WithdrawSucceedsOnce ==
    [][/\ ( /\ last'.op = "withdraw" /\ last'.caller = creator
            /\ status = "Active" /\ now > deadline /\ total_raised >= goal
            /\ ~MintTraps(last')
            => /\ last'.result = "Ok" /\ PaidTo(last', creator)
               /\ total_raised' = 0 /\ status' = "Successful" )
       /\ ( last'.op = "withdraw" /\ last'.result = "Ok" => status = "Active" )
       /\ ( status = "Successful" => status' = "Successful" )
       /\ ( last'.op = "withdraw" /\ status = "Successful"
            => /\ last'.result = "panic: campaign is not active"
               /\ last'.transfers = <<>>
               /\ UNCHANGED <<storage, balance>> )]_vars

\* A second withdraw by the creator, after the payout.
C4_Witness ==
    /\ status = "Successful"
    /\ last.op = "withdraw" /\ last.caller = creator
    /\ last.result = "panic: campaign is not active"
    /\ balance[creator] > InitialBalance

\* ---------------------------------------------------------------------- C5
\* C5: a withdraw call on an Active campaign (authorized by the creator)
\* returns CampaignStillActive whenever the time is <= deadline, whatever
\* total_raised is, and GoalNotReached when the time is > deadline and
\* total_raised < goal; a withdraw call that returns either error has
\* transferred nothing and left storage and balances unchanged.
C5_WithdrawTypedErrors ==
    [][/\ ( last'.op = "withdraw" /\ last'.caller = creator /\ status = "Active"
            => /\ (now <= deadline => last'.result = "CampaignStillActive")
               /\ (now > deadline /\ total_raised < goal
                     => last'.result = "GoalNotReached") )
       /\ ( /\ last'.op = "withdraw"
            /\ last'.result \in {"CampaignStillActive", "GoalNotReached"}
            => /\ last'.transfers = <<>>
               /\ UNCHANGED <<storage, balance>> )]_vars

\* At the deadline itself, with the goal already met.
C5_Witness ==
    /\ last.op = "withdraw" /\ last.result = "CampaignStillActive"
    /\ now = deadline /\ goal > 0 /\ total_raised >= goal

\* ---------------------------------------------------------------------- C6
AllReclaimed(amounts) == \A a \in Addr : amounts[a] = 0

\* C6: in a campaign that failed its goal, the refund_single call that
\* returns an amount sets status to Refunded exactly when every ledger
\* amount is zero after it, and status changes to Refunded in no other
\* step; while some contributor holds a positive amount the (unpaid)
\* campaign is Active, and a refund_single call that such a contributor
\* authorizes for itself is accepted.
C6_RefundedWhenAllReclaimed ==
    [][/\ ( last'.op = "refund_single" /\ last'.result = "Ok"
            /\ last'.transfers # <<>>
            => (status' = "Refunded" <=> AllReclaimed(contribution')) )
       /\ ( status' = "Refunded" /\ status # "Refunded"
            => /\ last'.op = "refund_single" /\ last'.transfers # <<>>
               /\ now > deadline /\ total_raised < goal )
       /\ ( creator' # None /\ status' # "Successful"
            /\ ~AllReclaimed(contribution')
            => status' = "Active" )
       /\ ( /\ last'.op = "refund_single" /\ last'.caller = last'.who
            /\ status = "Active" /\ now > deadline /\ total_raised < goal
            /\ contribution[last'.who] > 0
            => /\ last'.result = "Ok"
               /\ PaidTo(last', last'.who) )]_vars

\* One contributor has reclaimed, the other has not: still Active.
C6_Witness ==
    /\ last.op = "refund_single" /\ last.transfers # <<>>
    /\ status = "Active"
    /\ \E a \in Addr : contribution[a] > 0

\* ---------------------------------------------------------------------- C7
\* C7: a successful refund_single(c) for a contributor with ledger amount
\* a > 0 transfers exactly a from the campaign to c, sets c's entry to 0,
\* decrements total_raised by exactly a and touches no other entry; a
\* refund_single(c) on an entry of 0 transfers nothing; and no identity
\* ever holds more than it started with unless it was paid by withdraw, so
\* the refunds to c never exceed what c contributed.
C7_RefundExact ==
    [][/\ ( last'.op = "refund_single" /\ last'.result = "Ok"
            /\ contribution[last'.who] > 0
            => LET c == last'.who
                   a == contribution[c]
               IN  /\ last'.transfers = <<Xfer(Contract, c, a)>>
                   /\ balance' = [balance EXCEPT ![Contract] = @ - a,
                                                 ![c] = @ + a]
                   /\ contribution' = [contribution EXCEPT ![c] = 0]
                   /\ total_raised' = total_raised - a )
       /\ ( last'.op = "refund_single" /\ ~(contribution[last'.who] > 0)
            => last'.transfers = <<>> /\ balance' = balance )
       /\ ( \A c \in Addr :
              (c # creator' \/ status' # "Successful")
              => balance'[c] + contribution'[c] = InitialBalance )]_vars

\* The second refund_single of a contributor that was refunded before.
C7_Witness ==
    /\ last.op = "refund_single" /\ last.result = "Ok"
    /\ last.transfers = <<>>
    /\ Contains(contributors, last.who) /\ min_contribution > 0
    /\ balance[last.who] = InitialBalance
    /\ \E a \in Addr : contribution[a] > 0

\* ---------------------------------------------------------------------- C8
\* C8: refund_single (authorized by the identity it refunds) on an Active
\* campaign after the deadline with total_raised >= goal returns
\* GoalReached, transfers nothing and leaves storage and balances
\* unchanged, whether or not the identity has contributed.
C8_RefundGoalReached ==
    [][/\ last'.op = "refund_single" /\ last'.caller = last'.who
       /\ status = "Active" /\ now > deadline /\ total_raised >= goal
       => /\ last'.result = "GoalReached"
          /\ last'.transfers = <<>>
          /\ UNCHANGED <<storage, balance>>]_vars

\* A contributor asks for its stake back although the goal was just met.
C8_Witness ==
    /\ last.op = "refund_single" /\ last.result = "GoalReached"
    /\ contribution[last.who] > 0
    /\ goal > 0 /\ total_raised = goal

\* ---------------------------------------------------------------------- C9
\* C9: when the refund preconditions hold (Active, time > deadline,
\* total_raised < goal), refund_single for an identity whose ledger amount
\* is zero, authorized by it, returns Ok, transfers nothing and changes
\* nothing.
C9_RefundNothingIsNoOp ==
    [][/\ last'.op = "refund_single" /\ last'.caller = last'.who
       /\ status = "Active" /\ now > deadline /\ total_raised < goal
       /\ contribution[last'.who] = 0
       => /\ last'.result = "Ok"
          /\ last'.transfers = <<>>
          /\ UNCHANGED <<storage, balance>>]_vars

\* A non-contributor calls refund_single while nothing was raised at all.
C9_Witness ==
    /\ last.op = "refund_single" /\ last.result = "Ok"
    /\ ~Contains(contributors, last.who)
    /\ total_raised = 0 /\ status = "Active"

\* --------------------------------------------------------------------- C10
\* C10: once the campaign is initialized, every initialize call, whatever
\* its caller and arguments, returns AlreadyInitialized and leaves storage
\* and balances unchanged; initialize succeeds only on the uninitialized
\* contract.
C10_InitializeOnce ==
    [][/\ ( last'.op = "initialize" /\ creator # None
            => /\ last'.result = "AlreadyInitialized"
               /\ UNCHANGED <<storage, balance>> )
       /\ ( last'.op = "initialize" /\ last'.result = "Ok" => creator = None )]_vars

\* A second initialize, sent by the creator after contributions came in.
C10_Witness ==
    /\ last.op = "initialize" /\ last.result = "AlreadyInitialized"
    /\ last.caller = creator
    /\ total_raised > 0

\* --------------------------------------------------------------------- C11
\* C11: on an initialized campaign that has not been paid out, total_raised
\* equals the sum of the ledger amounts after every contribute call,
\* accepted or not; an accepted contribute(c, amount) raises c's ledger
\* amount and total_raised by exactly amount and touches no other entry,
\* also when total_raised already meets or exceeds the goal; a contribute
\* call that is not accepted changes neither.
C11_ContributeAccounting ==
    [][last'.op = "contribute" /\ creator # None =>
         /\ ( status # "Successful"
              => total_raised' = SumOver(contribution', Addr) )
         /\ ( last'.result = "Ok"
              => /\ contribution' =
                       [contribution EXCEPT
                          ![last'.who] = contribution[last'.who] + last'.amount]
                 /\ total_raised' = total_raised + last'.amount )
         /\ ( last'.result # "Ok"
              => contribution' = contribution /\ total_raised' = total_raised )]_vars

\* A repeated contribution to a campaign whose goal was already met.
C11_Witness ==
    /\ last.op = "contribute" /\ last.result = "Ok" /\ last.amount > 0
    /\ goal > 0 /\ total_raised - last.amount >= goal
    /\ contribution[last.who] > last.amount

\* --------------------------------------------------------------------- C12
\* C12 (as stated): a contribute call made after the deadline (authorized by
\* the contributor) returns CampaignEnded and leaves storage and balances
\* unchanged.
C12_LateContributeEnded ==
    [][/\ last'.op = "contribute" /\ last'.caller = last'.who
       /\ creator # None /\ now > deadline
       => /\ last'.result = "CampaignEnded"
          /\ UNCHANGED <<storage, balance>>]_vars

\* C12 (amended): a contribute call made after the deadline returns
\* CampaignEnded when it is authorized, the campaign is Active and the
\* amount is not below min_contribution (the status and the minimum are
\* checked first and abort the call instead); every contribute call made
\* after the deadline fails, transfers nothing and leaves storage and
\* balances unchanged; CampaignEnded is returned at no other time.
C12_LateContributeRejected ==
    [][last'.op = "contribute" /\ creator # None =>
         /\ ( /\ now > deadline /\ last'.caller = last'.who
              /\ status = "Active" /\ last'.amount >= min_contribution
              => last'.result = "CampaignEnded" )
         /\ ( now > deadline
              => /\ last'.result # "Ok"
                 /\ last'.transfers = <<>>
                 /\ UNCHANGED <<storage, balance>> )
         /\ ( last'.result = "CampaignEnded" => now > deadline )]_vars

\* A late contribution to a campaign that holds earlier ones.
C12_Witness ==
    /\ last.op = "contribute" /\ last.result = "CampaignEnded"
    /\ last.amount > 0 /\ balance[last.who] >= last.amount
    /\ total_raised > 0 /\ now > deadline

\* --------------------------------------------------------------------- C13
\* C13: a contribute call with amount < min_contribution fails, transfers
\* nothing and leaves storage and balances unchanged, and it aborts with
\* "amount below minimum" when it is authorized and the campaign is Active;
\* a contribute call with amount = min_contribution that its contributor
\* authorized, on an Active campaign at or before the deadline, is accepted
\* (the contributor holding that amount of the asset).
C13_MinimumContribution ==
    [][last'.op = "contribute" /\ creator # None =>
         /\ ( last'.amount < min_contribution
              => /\ last'.result \notin {"Ok"} \cup TypedErrors
                 /\ last'.transfers = <<>>
                 /\ UNCHANGED <<storage, balance>> )
         /\ ( /\ last'.amount < min_contribution
              /\ last'.caller = last'.who /\ status = "Active"
              => last'.result = "panic: amount below minimum" )
         /\ ( /\ last'.amount = min_contribution
              /\ last'.caller = last'.who
              /\ status = "Active" /\ now <= deadline
              /\ balance[last'.who] >= last'.amount
              => /\ last'.result = "Ok"
                 /\ contribution'[last'.who] =
                       contribution[last'.who] + min_contribution )]_vars

\* A contribution of exactly the positive minimum, made at the deadline.
C13_Witness ==
    /\ last.op = "contribute" /\ last.result = "Ok"
    /\ min_contribution > 0 /\ last.amount = min_contribution
    /\ now = deadline

\* --------------------------------------------------------------------- C14
\* C14: in every reachable state the contributor list holds no identity
\* twice, however often an identity has contributed.
C14_ContributorsDistinct ==
    \A i, j \in 1..Len(contributors) :
        contributors[i] = contributors[j] => i = j

\* The second accepted contribution of the only contributor: its ledger
\* amount is the sum of the two, the list has length 1.
C14_Witness ==
    /\ last.op = "contribute" /\ last.result = "Ok" /\ last.amount = 1
    /\ contribution[last.who] = 2
    /\ contributors = <<last.who>>

\* --------------------------------------------------------------------- C15
Terminal == {"Successful", "Refunded", "Cancelled"}

\* C15 (as stated): once status is Successful, Refunded or Cancelled, every
\* call to contribute, withdraw, refund_single, set_nft_contract or
\* add_roadmap_item fails and leaves storage and balances unchanged.
C15_TerminalRejectsAll ==
    [][/\ status \in Terminal
       /\ last'.op \in {"contribute", "withdraw", "refund_single",
                        "set_nft_contract", "add_roadmap_item"}
       => /\ last'.result # "Ok"
          /\ UNCHANGED <<storage, balance>>]_vars

\* C15 (amended): once status is Successful, Refunded or Cancelled, every
\* call to contribute, withdraw or refund_single fails and leaves storage
\* and balances unchanged, and no step changes the configuration, the
\* ledger, the status or a balance; set_nft_contract and add_roadmap_item
\* do not read the status: called by the creator with acceptable arguments
\* they still succeed and store the reward contract or the roadmap item.
C15_TerminalRejectsFunds ==
    [][(status \in Terminal) =>
         /\ ( last'.op \in {"contribute", "withdraw", "refund_single"}
              => /\ last'.result # "Ok"
                 /\ last'.transfers = <<>>
                 /\ UNCHANGED <<storage, balance>> )
         /\ UNCHANGED <<config, ledger, balance>>
         /\ ( /\ last'.op = "set_nft_contract"
              /\ last'.caller = creator /\ last'.who = creator
              => last'.result = "Ok" /\ nft_contract' = NftAddr )
         /\ ( /\ last'.op = "add_roadmap_item" /\ last'.caller = creator
              /\ last'.amount > now
              => \/ last'.result = "Ok" /\ Len(roadmap') = Len(roadmap) + 1
                 \/ last'.result = "panic: description cannot be empty" )]_vars

\* A contributor tries to add to a campaign that was refunded in full.
C15_Witness ==
    /\ status = "Refunded"
    /\ last.op = "contribute" /\ last.caller = last.who
    /\ last.amount > 0 /\ last.amount >= min_contribution
    /\ last.result = "panic: campaign is not active"

\* --------------------------------------------------------------------- C16
\* How often the call record lists a mint for identity a.
MintCount(call, a) ==
    Cardinality({i \in 1..Len(call.mints) : call.mints[i] = a})

Position(list, a) == CHOOSE i \in 1..Len(list) : list[i] = a

\* C16: a successful withdraw with a reward contract stored mints exactly
\* once for every identity of the contributor list whose ledger amount is
\* positive and never for any other identity, in the order of the list,
\* which is the order of first contribution (an accepted contribute
\* appends a new identity at the end and nothing else changes the list);
\* with no reward contract stored, and in every other call, nothing is
\* minted.
C16_MintPerPositiveContributor ==
    [][/\ ( last'.op = "withdraw" /\ last'.result = "Ok" =>
              /\ \A a \in Addr :
                    MintCount(last', a) =
                        IF /\ nft_contract # None
                           /\ Contains(contributors, a)
                           /\ contribution[a] > 0
                        THEN 1 ELSE 0
              /\ \A i, j \in 1..Len(last'.mints) :
                    i < j => Position(contributors, last'.mints[i])
                                < Position(contributors, last'.mints[j]) )
       /\ ( last'.op # "withdraw" \/ last'.result # "Ok"
              => last'.mints = <<>> )
       /\ ( creator # None =>
              contributors' =
                  IF /\ last'.op = "contribute" /\ last'.result = "Ok"
                     /\ ~Contains(contributors, last'.who)
                  THEN contributors \o <<last'.who>>
                  ELSE contributors )]_vars

\* Both identities hold a positive amount; the creator contributed second.
C16_Witness ==
    /\ last.op = "withdraw" /\ last.result = "Ok"
    /\ goal > 0
    /\ last.mints = <<"alice", "creator">>

\* --------------------------------------------------------------------- C17
\* C17: when the reward contract's mint fails in a withdraw call that has
\* passed every check (authorized by the creator, Active, time > deadline,
\* total_raised >= goal), the whole call is aborted: the fee and creator
\* transfers are undone, storage (total_raised and status included) and
\* balances keep their pre-call values, and no event or mint of the call
\* remains; and every withdraw call either commits the whole payout or
\* changes nothing.
C17_MintFailureAbortsWithdraw ==
    [][last'.op = "withdraw" =>
         /\ ( /\ MintTraps(last') /\ last'.caller = creator
              /\ status = "Active" /\ now > deadline /\ total_raised >= goal
              => /\ last'.result = "panic: mint"
                 /\ status' = "Active" /\ total_raised' = total_raised
                 /\ UNCHANGED <<storage, balance>>
                 /\ last'.transfers = <<>> /\ last'.events = <<>>
                 /\ last'.mints = <<>> )
         /\ \/ /\ last'.result = "Ok"
               /\ status' = "Successful" /\ total_raised' = 0
               /\ PaidTo(last', creator)
               /\ balance'[Contract] = balance[Contract] - total_raised
            \/ /\ last'.result # "Ok"
               /\ UNCHANGED <<storage, balance>>
               /\ last'.transfers = <<>> /\ last'.events = <<>>]_vars

\* The mint traps after a positive fee and the creator's share were sent.
C17_Witness ==
    /\ last.op = "withdraw" /\ last.result = "panic: mint"
    /\ platform_config.some /\ platform_config.fee_bps = 2500
    /\ total_raised = 4 /\ balance[Contract] = 4
    /\ status = "Active"

\* --------------------------------------------------------------------- C18
\* The asset contract refuses to move `amount` from `from` to `to`.
Refused(from, to, amount) ==
    balance[from] < amount \/ deauthorized \in {from, to}

\* C18: when the asset transfer fails inside a contribute call that passed
\* every check (the contributor lacks the balance, or the asset refuses the
\* transfer), the call aborts and storage and balances are unchanged; the
\* same holds for the transfer of refund_single and for the fee and creator
\* transfers of withdraw; a call that failed in a transfer has committed
\* no transfer, not even an earlier one of the same call.
C18_TransferFailureAborts ==
    [][/\ ( /\ last'.op = "contribute" /\ last'.caller = last'.who
            /\ status = "Active" /\ now <= deadline
            /\ last'.amount >= min_contribution
            /\ Refused(last'.who, Contract, last'.amount)
            => last'.result = "panic: transfer" )
       /\ ( /\ last'.op = "refund_single" /\ last'.caller = last'.who
            /\ status = "Active" /\ now > deadline /\ total_raised < goal
            /\ contribution[last'.who] > 0
            /\ Refused(Contract, last'.who, contribution[last'.who])
            => last'.result = "panic: transfer" )
       /\ ( /\ last'.op = "withdraw" /\ last'.caller = creator
            /\ status = "Active" /\ now > deadline /\ total_raised >= goal
            /\ \/ deauthorized \in {Contract, creator}
               \/ platform_config.some /\ deauthorized = platform_config.address
            => last'.result = "panic: transfer" )
       /\ ( last'.result = "panic: transfer"
            => /\ last'.op \in {"contribute", "refund_single", "withdraw"}
               /\ last'.transfers = <<>> /\ last'.events = <<>>
               /\ UNCHANGED <<storage, balance>> )]_vars

\* The fee reaches its recipient, then the transfer to the deauthorized
\* creator fails: the fee transfer is undone with the rest of the call.
C18_Witness ==
    /\ last.op = "withdraw" /\ last.result = "panic: transfer"
    /\ deauthorized = creator
    /\ platform_config.some /\ platform_config.fee_bps = 10000
    /\ total_raised > 0 /\ balance[Contract] = total_raised
    /\ balance[PlatformAddr] = 0
    /\ status = "Active"

\* --------------------------------------------------------------------- C19
Min(a, b) == IF a <= b THEN a ELSE b

C20_StatusLeavesActiveOnly ==
    [][creator # None =>
         /\ ( status' # status =>
                /\ status = "Active"
                /\ \/ /\ status' = "Successful"
                      /\ last'.op = "withdraw" /\ last'.result = "Ok"
                   \/ /\ status' = "Refunded"
                      /\ last'.op = "refund_single" /\ last'.result = "Ok" )
         /\ ( status # "Active" => status' = status )
         /\ ( /\ status # "Active"
              /\ \/ last'.op = "withdraw"
                 \/ /\ last'.op \in {"contribute", "refund_single"}
                    /\ last'.caller = last'.who
              => /\ last'.result = "panic: campaign is not active"
                 /\ last'.transfers = <<>>
                 /\ UNCHANGED <<storage, balance>> )]_vars

\* A refund is asked for after the campaign was paid out.
C20_Witness ==
    /\ status = "Successful"
    /\ last.op = "refund_single" /\ last.caller = last.who
    /\ contribution[last.who] > 0
    /\ last.result = "panic: campaign is not active"

\* --------------------------------------------------------------------- C21
\* C21: a contribute call on an initialized campaign reports the first
\* failing check in the order authorization, status, minimum, deadline: an
\* unauthorized call aborts in the authorization; an authorized call on a
\* campaign that is not Active aborts with "campaign is not active"
\* whatever the time and the amount; an authorized call on an Active
\* campaign with amount < min_contribution aborts with "amount below
\* minimum" whatever the time; and CampaignEnded is returned exactly when
\* the call is authorized, the campaign is Active, the amount is not below
\* the minimum and the time is past the deadline.
C21_ContributeCheckOrder ==
    [][last'.op = "contribute" /\ creator # None =>
         LET authorized == last'.caller = last'.who
         IN  /\ ( ~authorized => last'.result = "panic: auth" )
             /\ ( authorized /\ status # "Active"
                  => last'.result = "panic: campaign is not active" )
             /\ ( authorized /\ status = "Active"
                  /\ last'.amount < min_contribution
                  => last'.result = "panic: amount below minimum" )
             /\ ( last'.result = "CampaignEnded"
                  <=> /\ authorized /\ status = "Active"
                      /\ last'.amount >= min_contribution
                      /\ now > deadline )]_vars

\* Too little and too late: the minimum is reported, not the deadline.
C21_Witness ==
    /\ last.op = "contribute" /\ last.caller = last.who
    /\ status = "Active" /\ now > deadline
    /\ last.amount < min_contribution
    /\ last.result = "panic: amount below minimum"

\* --------------------------------------------------------------------- C22
\* C22: at time = deadline a valid contribute (authorized, Active campaign,
\* amount not below the minimum, the contributor holding the amount) is
\* accepted, while withdraw authorized by the creator and refund_single
\* authorized by its contributor both return CampaignStillActive; a
\* contribute is accepted only at a time <= deadline and a withdraw or a
\* refund_single succeeds only at a time > deadline, so no timestamp allows
\* both; and total_raised never increases once the time is past the
\* deadline.
C22_DeadlineBoundary ==
    [][creator # None =>
         /\ ( /\ last'.op = "contribute" /\ last'.caller = last'.who
              /\ status = "Active" /\ now = deadline
              /\ last'.amount >= min_contribution
              /\ balance[last'.who] >= last'.amount
              => /\ last'.result = "Ok"
                 /\ total_raised' = total_raised + last'.amount )
         /\ ( /\ last'.op = "withdraw" /\ last'.caller = creator
              /\ status = "Active" /\ now = deadline
              => last'.result = "CampaignStillActive" )
         /\ ( /\ last'.op = "refund_single" /\ last'.caller = last'.who
              /\ status = "Active" /\ now = deadline
              => last'.result = "CampaignStillActive" )
         /\ ( last'.op = "contribute" /\ last'.result = "Ok"
              => now <= deadline )
         /\ ( last'.op \in {"withdraw", "refund_single"}
              /\ last'.result = "Ok"
              => now > deadline )
         /\ ( now > deadline => total_raised' <= total_raised )]_vars

\* A contributor of a campaign short of its goal asks for its stake at the
\* deadline itself.
C22_Witness ==
    /\ last.op = "refund_single" /\ last.caller = last.who
    /\ last.result = "CampaignStillActive"
    /\ now = deadline
    /\ contribution[last.who] > 0 /\ total_raised < goal

\* --------------------------------------------------------------------- C23
IsPrefix(s, t) ==
    Len(s) <= Len(t) /\ \A i \in 1..Len(s) : s[i] = t[i]

\* C23: every step leaves the contributor list as a prefix of the new one,
\* so nothing is removed or reordered and the count never decreases; an
\* accepted contribute of an identity not yet listed appends exactly that
\* identity at the end; every other call, refund_single and withdraw
\* included, leaves the list as it is.
C23_ContributorsAppendOnly ==
    [][/\ IsPrefix(contributors, contributors')
       /\ Len(contributors') >= Len(contributors)
       /\ ( /\ last'.op = "contribute" /\ last'.result = "Ok"
            /\ \A i \in 1..Len(contributors) : contributors[i] # last'.who
            => /\ Len(contributors') = Len(contributors) + 1
               /\ contributors'[Len(contributors')] = last'.who )
       /\ ( last'.op # "contribute" => contributors' = contributors )]_vars

\* The second contributor was refunded and is still listed, in its place.
C23_Witness ==
    /\ last.op = "refund_single" /\ last.transfers # <<>>
    /\ Len(contributors) = 2
    /\ contributors[2] = last.who /\ contribution[last.who] = 0

\* --------------------------------------------------------------------- C24
\* C24: the configuration (creator, asset, goal, deadline, min_contribution,
\* platform_config) changes in one step only, the successful initialize of
\* the uninitialized contract, which stores its arguments; no later call,
\* a repeated initialize included, changes any of the six fields.
C24_ConfigImmutable ==
    [][/\ ( creator # None => config' = config )
       /\ ( config' # config
            => /\ creator = None
               /\ last'.op = "initialize" /\ last'.result = "Ok"
               /\ creator' = last'.who /\ token' = TokenAddr
               /\ [goal |-> goal', deadline |-> deadline',
                   min_contribution |-> min_contribution',
                   platform_config |-> platform_config'] \in InitArgs )]_vars

\* A campaign with a goal and a fee, refunded in full, its reward contract
\* set afterwards, then sent another initialize: the goal and the fee are
\* the ones it started with.
C24_Witness ==
    /\ last.op = "initialize" /\ last.result = "AlreadyInitialized"
    /\ status = "Refunded" /\ nft_contract # None
    /\ goal = 3 /\ min_contribution = 1
    /\ platform_config.some /\ platform_config.fee_bps = 2500

\* --------------------------------------------------------------------- C25
\* The identity whose authorization the call needs.
Authorizer(call) ==
    IF call.op = "withdraw" \/ call.op = "add_roadmap_item"
    THEN creator ELSE call.who

\* C25: on an initialized campaign a call of contribute or refund_single
\* that its contributor did not authorize, and a call of withdraw,
\* set_nft_contract or add_roadmap_item that the stored creator did not
\* authorize, fails, transfers nothing and changes neither storage nor a
\* balance (so a call that changes one was authorized by the right
\* identity); set_nft_contract also
\* fails when its creator argument is not the stored creator; so tokens
\* leave an identity's balance only in a contribute it authorized, and a
\* refund reaches an identity only in a refund_single it authorized.
C25_AuthorizationRequired ==
    [][( /\ creator # None
         /\ \/ last'.op = "contribute" \/ last'.op = "refund_single"
            \/ last'.op = "withdraw" \/ last'.op = "set_nft_contract"
            \/ last'.op = "add_roadmap_item" ) =>
         /\ ( last'.caller # Authorizer(last')
              => /\ last'.result \notin {"Ok"} \cup TypedErrors
                 /\ last'.transfers = <<>>
                 /\ UNCHANGED <<storage, balance>> )
         /\ ( last'.op = "set_nft_contract" /\ last'.who # creator
              => /\ last'.result = "panic: not authorized"
                 /\ UNCHANGED <<storage, balance>> )
         /\ ( balance' # balance =>
                \A a \in Addr :
                   /\ ( balance'[a] < balance[a]
                        => /\ last'.op = "contribute"
                           /\ last'.who = a /\ last'.caller = a )
                   /\ ( balance'[a] > balance[a]
                        /\ last'.op = "refund_single"
                        => last'.who = a /\ last'.caller = a ) )]_vars

\* Somebody else asks for a contributor's refund, which the contributor
\* itself could have had.
C25_Witness ==
    /\ last.op = "refund_single" /\ last.caller # last.who
    /\ last.result = "panic: auth"
    /\ status = "Active" /\ now > deadline /\ total_raised < goal
    /\ contribution[last.who] > 0

\* --------------------------------------------------------------------- C26
\* C26: on the uninitialized contract an initialize (authorized by its
\* creator) whose platform config has a fee rate above 10000 cannot store
\* anything, after any number of such attempts every initialize with an
\* acceptable config can still succeed and stores that config; a stored
\* platform config has fee_bps <= 10000 in every reachable state, the fee
\* computed from it never exceeds total_raised and the creator payout is
\* never negative, and no withdraw has transferred a negative amount.
C26_FeeRateBounded ==
    /\ platform_config.some =>
          /\ platform_config.fee_bps <= 10000
          /\ FeeOf(total_raised, platform_config.fee_bps) <= total_raised
          /\ CreatorPayout(total_raised,
                           FeeOf(total_raised, platform_config.fee_bps)) >= 0
    /\ last.op = "withdraw" =>
          \A i \in 1..Len(last.transfers) : last.transfers[i].amount >= 0
    /\ creator = None =>
          \A a \in InitArgs :
             IF a.platform_config.some /\ a.platform_config.fee_bps > 10000
             THEN ~ENABLED ( /\ Initialize("creator", "creator", TokenAddr,
                                           a.goal, a.deadline,
                                           a.min_contribution,
                                           a.platform_config)
                             /\ storage' # storage )
             ELSE ENABLED ( /\ Initialize("creator", "creator", TokenAddr,
                                          a.goal, a.deadline,
                                          a.min_contribution,
                                          a.platform_config)
                            /\ creator' = "creator"
                            /\ platform_config' = a.platform_config )

\* The creator's initialize with a rate of 10001 has just aborted: the
\* contract is still uninitialized.
C26_Witness ==
    /\ last.op = "initialize" /\ last.caller = last.who
    /\ last.result = "panic: platform fee cannot exceed 100%"
    /\ creator = None /\ status = None /\ ~platform_config.some

\* --------------------------------------------------------------------- C27
\* C27 (as stated): for every reachable total_raised and every stored
\* fee_bps <= 10000 the product total_raised * fee_bps fits the integer
\* type, and a withdraw whose preconditions hold (authorized by the
\* creator, Active, time > deadline, total_raised >= goal) does not abort
\* in the fee arithmetic: it pays out.
C27_FeeArithmeticNeverAborts ==
    [][/\ ( platform_config.some =>
              InRange(total_raised * platform_config.fee_bps) )
       /\ ( /\ last'.op = "withdraw" /\ last'.caller = creator
            /\ status = "Active" /\ now > deadline /\ total_raised >= goal
            => /\ last'.result \notin {"panic: fee calculation overflow",
                                       "panic: creator payout underflow"}
               /\ last'.result = "Ok" )]_vars

\* --------------------------------------------------------------------- C28
\* The events of the given name that the call committed.
EventsNamed(call, name) ==
    SelectSeq(call.events, LAMBDA e : e.name = name)

\* C28 (as stated): a successful withdraw emits exactly one withdrawn
\* (creator, total) event, and one fee_transferred (recipient, fee) event
\* exactly when a positive fee was taken, none otherwise; a failed
\* withdraw emits no event.
C28_FeeEventOnlyWhenFeeTaken ==
    [][last'.op = "withdraw" =>
         LET fee == IF platform_config.some
                    THEN (total_raised * platform_config.fee_bps) \div 10000
                    ELSE 0
         IN  /\ ( last'.result = "Ok" =>
                    /\ EventsNamed(last', "withdrawn") =
                          <<Event("withdrawn", creator, total_raised)>>
                    /\ EventsNamed(last', "fee_transferred") =
                          IF fee > 0
                          THEN <<Event("fee_transferred",
                                       platform_config.address, fee)>>
                          ELSE <<>> )
             /\ ( last'.result # "Ok" => last'.events = <<>> )]_vars

\* C28 (amended): a successful withdraw emits exactly one withdrawn
\* (creator, total) event, as its last event, and one fee_transferred
\* (recipient, fee) event exactly when a platform config is stored, also
\* when the fee computed from it is 0; with no platform config it emits no
\* fee event; a failed withdraw emits no event.
C28_FeeEventWhenConfigured ==
    [][last'.op = "withdraw" =>
         LET fee == IF platform_config.some
                    THEN (total_raised * platform_config.fee_bps) \div 10000
                    ELSE 0
         IN  /\ ( last'.result = "Ok" =>
                    /\ EventsNamed(last', "withdrawn") =
                          <<Event("withdrawn", creator, total_raised)>>
                    /\ last'.events[Len(last'.events)].name = "withdrawn"
                    /\ EventsNamed(last', "fee_transferred") =
                          IF platform_config.some
                          THEN <<Event("fee_transferred",
                                       platform_config.address, fee)>>
                          ELSE <<>> )
             /\ ( last'.result # "Ok" => last'.events = <<>> )]_vars

\* A payout of 3 at 2500 basis points: the fee event reports a fee of 0.
C28_Witness ==
    /\ last.op = "withdraw" /\ last.result = "Ok"
    /\ platform_config.some
    /\ last.events[1] = Event("fee_transferred", PlatformAddr, 0)
    /\ last.events[Len(last.events)] = Event("withdrawn", creator, 3)

\* --------------------------------------------------------------------- C29
\* C29 (as stated): an identity is in the contributor list exactly when it
\* has contributed a positive amount at some point: it enters the list in
\* the step of its first accepted contribute of a positive amount and in
\* no other step, never through a contribution of amount zero, and an
\* accepted contribute of a positive amount leaves it listed.
C29_ListedIffContributedPositive ==
    [][\A a \in Addr :
         /\ ( Contains(contributors', a) /\ ~Contains(contributors, a)
              => /\ last'.op = "contribute" /\ last'.result = "Ok"
                 /\ last'.who = a /\ last'.amount > 0 )
         /\ ( /\ last'.op = "contribute" /\ last'.result = "Ok"
              /\ last'.who = a /\ last'.amount > 0
              => Contains(contributors', a) )]_vars

C31_EscrowSolvent ==
    /\ balance[Contract] = total_raised
    /\ status = "Active" => total_raised = LedgerSum
    /\ status \in {"Successful", "Refunded"} => balance[Contract] = 0
    /\ status = "Active" =>
          \A a \in Addr : contribution[a] <= balance[Contract]
    /\ last.op \in {"withdraw", "refund_single"} =>
          last.result # "panic: transfer"

\* Both identities contributed, one of them has been refunded, and the
\* campaign still holds exactly the other one's stake.
C31_Witness ==
    /\ status = "Active" /\ Len(contributors) = 2
    /\ last.op = "refund_single" /\ last.amount > 0
    /\ \E a \in Addr : contribution[a] > 0
    /\ balance[Contract] = total_raised /\ total_raised > 0

\* --------------------------------------------------------------------- C32
\* The most recent call was a withdraw that paid out.
PaidOut == last.op = "withdraw" /\ last.result = "Ok"

\* The most recent call was a refund_single that returned a positive amount.
RefundPaid ==
    /\ last.op = "refund_single" /\ last.result = "Ok"
    /\ last.amount > 0 /\ last.transfers # <<>>

\* C32: the clock never going back, no run of one campaign contains both a
\* successful withdraw and a refund_single that transfers a positive
\* amount, in either order: one of the two never happens in it.
C32_PayoutRefundExclusive == [](~PaidOut) \/ [](~RefundPaid)

\* A contributor of a campaign with a positive minimum has been refunded,
\* and the creator's later withdraw is turned down.
C32_Witness ==
    /\ min_contribution = 1 /\ Len(contributors) = 2
    /\ \E a \in Addr : contribution[a] = 0
    /\ now > deadline /\ status = "Active"
    /\ last.op = "withdraw" /\ last.caller = creator
    /\ last.result = "GoalNotReached"

\* --------------------------------------------------------------------- C33
\* C33: when the deadline has passed with 0 < total_raised < goal and every
\* contributor that holds a positive ledger amount eventually calls
\* refund_single with its own authorization, status eventually becomes
\* Refunded; and whenever status is Refunded, total_raised is 0, every
\* ledger amount is 0 and every contributor holds again what it held before
\* the campaign, i.e. it got back exactly the sum of its contributions.
C33_RefundLiveness ==
    /\ ( /\ status = "Active" /\ now > deadline
         /\ 0 < total_raised /\ total_raised < goal ) ~> (status = "Refunded")
    /\ [](status = "Refunded" =>
            /\ total_raised = 0
            /\ \A a \in Addr :
                  contribution[a] = 0 /\ balance[a] = InitialBalance)

\* Both identities contributed to a campaign that missed its goal, and the
\* second of the two refunds has just closed it.
C33_Witness ==
    /\ status = "Refunded" /\ Len(contributors) = 2
    /\ goal > 0 /\ now > deadline
    /\ last.op = "refund_single" /\ last.caller = last.who
    /\ last.amount > 0

\* --------------------------------------------------------------------- C34
\* An Active campaign past its deadline that holds nothing and has a
\* positive goal.
EmptyAfterDeadline ==
    /\ status = "Active" /\ now > deadline
    /\ total_raised = 0 /\ goal > 0

\* C34 (as stated): once the time is past the deadline with total_raised = 0
\* and goal > 0, status is Active in every later state (no step leaves such
\* a state, whatever is called, so it lasts for ever): withdraw returns
\* GoalNotReached, refund_single is a successful no-op that does not set
\* Refunded, and contribute returns CampaignEnded (each call authorized as
\* the operation requires).
C34_EmptyCampaignStaysActive ==
    [][EmptyAfterDeadline =>
         /\ EmptyAfterDeadline'
         /\ ( last'.op = "withdraw" /\ last'.caller = creator
              => last'.result = "GoalNotReached" )
         /\ ( last'.op = "refund_single" /\ last'.caller = last'.who
              => /\ last'.result = "Ok" /\ last'.transfers = <<>>
                 /\ UNCHANGED <<storage, balance>> )
         /\ ( last'.op = "contribute" /\ last'.caller = last'.who
              => last'.result = "CampaignEnded" )]_vars

\* C34 (amended): as stated, except that contribute returns CampaignEnded
\* when its amount is not below min_contribution and aborts on the minimum
\* check, which comes first, otherwise; every contribute fails and changes
\* nothing.
C34_EmptyCampaignNeverTerminates ==
    [][EmptyAfterDeadline =>
         /\ EmptyAfterDeadline'
         /\ ( last'.op = "withdraw" /\ last'.caller = creator
              => last'.result = "GoalNotReached" )
         /\ ( last'.op = "refund_single" /\ last'.caller = last'.who
              => /\ last'.result = "Ok" /\ last'.transfers = <<>>
                 /\ UNCHANGED <<storage, balance>> )
         /\ ( last'.op = "contribute" /\ last'.caller = last'.who
              => /\ last'.result =
                       IF last'.amount < min_contribution
                       THEN "panic: amount below minimum"
                       ELSE "CampaignEnded"
                 /\ UNCHANGED <<storage, balance>> )]_vars

\* Nobody contributed; after the deadline a refund_single call has returned
\* Ok without closing the campaign.
C34_Witness ==
    /\ EmptyAfterDeadline /\ contributors = <<>>
    /\ last.op = "refund_single" /\ last.caller = last.who
    /\ last.result = "Ok" /\ last.transfers = <<>>

\* --------------------------------------------------------------------- C35
\* C35: a successful withdraw changes only total_raised, status and
\* balances: every ledger amount and the contributor list (and the
\* configuration, the roadmap and the reward contract) are the same after
\* the call as before it, and nothing changes them afterwards, so after the
\* payout the view contribution(a) still reports each cumulative amount
\* while the view total_raised() reports 0.
C35_WithdrawKeepsLedger ==
    /\ [][last'.op = "withdraw" /\ last'.result = "Ok" =>
            /\ UNCHANGED <<contribution, contributors>>
            /\ UNCHANGED <<config, roadmap, nft_contract>>
            /\ \A a \in Addr : ContributionOf(a)' = ContributionOf(a)
            /\ SumOver([a \in Addr |-> ContributionOf(a)'], Addr) = total_raised
            /\ TotalRaisedOf' = 0]_vars
    /\ [][(status = "Successful") =>
            /\ \A a \in Addr : ContributionOf(a)' = ContributionOf(a)
            /\ contributors' = contributors
            /\ TotalRaisedOf' = 0]_vars

\* Both identities' stakes have been paid out to the creator and are still
\* on the ledger.
C35_Witness ==
    /\ last.op = "withdraw" /\ last.result = "Ok"
    /\ \A a \in Addr : ContributionOf(a) > 0
    /\ TotalRaisedOf = 0 /\ balance[Contract] = 0

\* --------------------------------------------------------------------- C36
\* The ledger, total_raised, status and the balances of the current state.
Funds ==
    [contribution |-> contribution, total_raised |-> total_raised,
     status |-> status, balance |-> balance]

\* refund_single is open: a call authorized by its contributor succeeds.
CanRefund ==
    /\ status = "Active" /\ now > deadline /\ total_raised < goal

\* C36: from every reachable state in which two different contributors can
\* both refund, refund_single for the one and then for the other yields the
\* same ledger, total_raised, status and balances as the two calls in the
\* opposite order, and when both hold a positive amount that common result
\* has both entries at 0; every authorized refund_single call commits
\* exactly what the function composed here computes.
C36_RefundOrderIrrelevant ==
    /\ [](CanRefund =>
            \A a, b \in Addr :
               a # b =>
                 LET ab == AfterRefund(AfterRefund(Funds, a), b)
                     ba == AfterRefund(AfterRefund(Funds, b), a)
                 IN  /\ ab = ba
                     /\ ( contribution[a] > 0 /\ contribution[b] > 0
                          => /\ ab.contribution[a] = 0
                             /\ ab.contribution[b] = 0
                             /\ ab.total_raised =
                                   total_raised - contribution[a]
                                                - contribution[b] ))
    /\ [][last'.op = "refund_single" /\ last'.caller = last'.who =>
            Funds' = AfterRefund(Funds, last'.who)]_vars

\* Both identities hold a stake in a campaign that missed its goal; the two
\* refunds, in either order, close it.
C36_Witness ==
    /\ CanRefund
    /\ \A a \in Addr : contribution[a] > 0
    /\ AfterRefund(AfterRefund(Funds, "alice"), "creator").status = "Refunded"
    /\ AfterRefund(AfterRefund(Funds, "creator"), "alice").status = "Refunded"
    /\ AfterRefund(Funds, "alice").status = "Active"

====
